---------------------------- MODULE Spec2Model ----------------------------
(***************************************************************************)
(* Model of the Tavus bridge (src/main.py): an OpenAI-compatible           *)
(* /v1/chat/completions endpoint that correlates requests to teacher       *)
(* backend sessions by a hash of the system prompt.                        *)
(*                                                                         *)
(* Text is a sequence of atoms.  An atom is either one whitespace          *)
(* character (" " or "\n") or a run of non-whitespace characters that the  *)
(* program never splits ("Waves", "[", "LESSON", ":", "]").  Python's      *)
(* str.split(), str.strip() and re.search() are computed on these          *)
(* sequences.  JSON values coming from the backend are <<"str", v>> or     *)
(* <<"null">>, and <<"absent">> stands for a field the body does not have. *)
(* Timestamps (time.time()) are left out: no decision reads them.          *)
(***************************************************************************)
EXTENDS Integers, Sequences, FiniteSets, TLC

\* ------------------------------------------------------------------ bounds
\* concurrent request handlers (coroutines of the event loop)
NumReq == 2
\* sessions the backend creates before it only refuses
MaxSessions == 2
\* tag / noise segments concatenated into a generated system prompt
MaxParts == 3
\* atoms in a generated reply text
MaxTextLen == 4

\* ------------------------------------------------------------ text helpers
WS == {" ", "\n"}

IsSpace(c) == c \in WS

RECURSIVE LStrip(_)
LStrip(s) == IF s # <<>> /\ IsSpace(Head(s)) THEN LStrip(Tail(s)) ELSE s

RECURSIVE RStrip(_)
RStrip(s) ==
  IF s # <<>> /\ IsSpace(s[Len(s)]) THEN RStrip(SubSeq(s, 1, Len(s) - 1)) ELSE s

\* a variant: str.lstrip()
Strip_LeftOnly(s) == LStrip(s)

\* str.strip()
Strip(s) == RStrip(LStrip(s))

\* text.split(): scan left to right, cur is the word being read
RECURSIVE SplitFrom(_, _, _)
SplitFrom(s, cur, acc) ==
  IF s = <<>>
  THEN IF cur = <<>> THEN acc ELSE Append(acc, cur)
  ELSE IF IsSpace(Head(s))
       THEN SplitFrom(Tail(s), <<>>, IF cur = <<>> THEN acc ELSE Append(acc, cur))
       ELSE SplitFrom(Tail(s), Append(cur, Head(s)), acc)

Split(s) == SplitFrom(s, <<>>, <<>>)

\* ------------------------------------------------------- program constants
DEFAULT_COMPETENCE == <<"Understanding", " ", "the", " ", "core", " ", "concepts">>

DefaultConfig ==
  [ subject    |-> <<"Physics">>,
    chapter    |-> <<"General">>,
    lesson     |-> <<"Introduction">>,
    level      |-> <<"High", " ", "School">>,
    language   |-> <<"en">>,
    student    |-> <<"Student">>,
    competence |-> <<DEFAULT_COMPETENCE>> ]

\* the keys of `patterns`, in the order the dict is iterated
PatternKeys ==
  <<"subject", "chapter", "lesson", "level", "language", "student", "competence">>

\* the literal after "\[" in each pattern
TagName(key) ==
  CASE key = "subject"    -> "SUBJECT"
    [] key = "chapter"    -> "CHAPTER"
    [] key = "lesson"     -> "LESSON"
    [] key = "level"      -> "LEVEL"
    [] key = "language"   -> "LANGUAGE"
    [] key = "student"    -> "STUDENT"
    [] key = "competence" -> "COMPETENCE"

GREETING_DEFAULT == <<"Hello!", " ", "I'm", " ", "your", " ", "AI", " ", "teacher.">>

NOT_CAUGHT ==
  <<"I", " ", "apologize,", " ", "but", " ", "I", " ", "didn't", " ", "catch", " ",
    "that.", " ", "Could", " ", "you", " ", "please", " ", "repeat?">>

APOLOGY ==
  <<"I'm", " ", "having", " ", "a", " ", "small", " ", "technical", " ", "issue.", " ",
    "Could", " ", "you", " ", "repeat", " ", "that?">>

\* --------------------------------------------------- regular expression
\* r"\[KEY:\s*([^\]]+)\]" tried at position i of s: group(1) as <<from, to>>,
\* or <<>> when the pattern does not match there.  \s* is greedy and gives
\* characters back one at a time until [^\]]+ has at least one character.
RECURSIVE SkipSpace(_, _)
SkipSpace(s, j) == IF j <= Len(s) /\ IsSpace(s[j]) THEN SkipSpace(s, j + 1) ELSE j

RECURSIVE SkipNotClose(_, _)
SkipNotClose(s, j) == IF j <= Len(s) /\ s[j] # "]" THEN SkipNotClose(s, j + 1) ELSE j

RECURSIVE GroupFrom(_, _, _)
GroupFrom(s, lo, g) ==
  \* g: where the group starts, lo: the least start \s* can give back to
  LET e == SkipNotClose(s, g) IN
  IF e > g /\ e <= Len(s) THEN <<g, e - 1>>
  ELSE IF g > lo THEN GroupFrom(s, lo, g - 1)
  ELSE <<>>

MatchAt(s, name, i) ==
  IF i + 2 <= Len(s) /\ s[i] = "[" /\ s[i + 1] = name /\ s[i + 2] = ":"
  THEN GroupFrom(s, i + 3, SkipSpace(s, i + 3))
  ELSE <<>>

\* re.search: the leftmost position where the pattern matches
RECURSIVE SearchFrom(_, _, _)
SearchFrom(s, name, i) ==
  IF i > Len(s) THEN <<>>
  ELSE LET m == MatchAt(s, name, i) IN
       IF m # <<>> THEN m ELSE SearchFrom(s, name, i + 1)

ReSearch(name, s) == SearchFrom(s, name, 1)

\* ------------------------------------------------------ helper functions
\* the content of the first message with role "system", "" when there is none
RECURSIVE FirstSystemContent(_)
FirstSystemContent(messages) ==
  IF messages = <<>> THEN <<>>
  ELSE IF Head(messages).role = "system" THEN Head(messages).content
  ELSE FirstSystemContent(Tail(messages))

\* the body of the loop over patterns.items()
ApplyPattern(config, key, content) ==
  LET m == ReSearch(TagName(key), content) IN
  IF m # <<>>
  THEN LET value == Strip(SubSeq(content, m[1], m[2])) IN
       IF key = "competence"
       THEN [config EXCEPT ![key] = <<value>>]
       ELSE [config EXCEPT ![key] = value]
  ELSE config

RECURSIVE ApplyPatterns(_, _, _)
ApplyPatterns(config, keys, content) ==
  IF keys = <<>> THEN config
  ELSE ApplyPatterns(ApplyPattern(config, Head(keys), content), Tail(keys), content)

\* a variant: the test without "and config['lesson']"
SynthesizeCompetence_AnyLesson(config) == config.competence = <<DEFAULT_COMPETENCE>>

\* "if no competence found": the test the code makes
SynthesizeCompetence(config) ==
  config.competence = <<DEFAULT_COMPETENCE>> /\ config.lesson # <<>>

\* a variant: the loop over the messages has no break and keeps the last
\* system message
RECURSIVE LastSystemContent(_)
LastSystemContent(messages) ==
  IF messages = <<>> THEN <<>>
  ELSE IF messages[Len(messages)].role = "system" THEN messages[Len(messages)].content
  ELSE LastSystemContent(SubSeq(messages, 1, Len(messages) - 1))

extract_config_LastSystem(messages) ==
  LET config == ApplyPatterns(DefaultConfig, PatternKeys, LastSystemContent(messages)) IN
  IF SynthesizeCompetence(config)
  THEN [config EXCEPT !.competence = << <<"Understanding", " ">> \o config.lesson >>]
  ELSE config

extract_config_from_system_prompt(messages) ==
  LET config == ApplyPatterns(DefaultConfig, PatternKeys, FirstSystemContent(messages)) IN
  IF SynthesizeCompetence(config)
  THEN [config EXCEPT !.competence = << <<"Understanding", " ">> \o config.lesson >>]
  ELSE config

\* hashlib.md5(...).hexdigest(), taken as injective
MD5(content) == <<"md5", content>>

\* a variant: the hash covers every message of the request
get_conversation_id_AllMessages(messages) == MD5(messages)

get_conversation_id(messages) == MD5(FirstSystemContent(messages))

\* a variant: the loop runs forward and returns the first user message
RECURSIVE get_first_user_message(_)
get_first_user_message(messages) ==
  IF messages = <<>> THEN <<>>
  ELSE IF Head(messages).role = "user" THEN Head(messages).content
  ELSE get_first_user_message(Tail(messages))

RECURSIVE get_last_user_message(_)
get_last_user_message(messages) ==
  IF messages = <<>> THEN <<>>
  ELSE IF messages[Len(messages)].role = "user" THEN messages[Len(messages)].content
  ELSE get_last_user_message(SubSeq(messages, 1, Len(messages) - 1))

\* ------------------------------------------------------------ JSON values
Absent == <<"absent">>

JNull == <<"null">>

JStr(v) == <<"str", v>>

\* a variant: data[field], with no default
DictGet_NoDefault(v, default) == v

\* dict.get(field, default): the default only when the field is absent
DictGet(v, default) == IF v = Absent THEN default ELSE v

\* --------------------------------------------------------------- inputs
P1 == <<"[", "LESSON", ":", " ", "Waves", "]">>

P2 == <<"[", "COMPETENCE", ":", " ", "Optics", "]">>

U1 == <<"What", " ", "is", " ", "light?">>

U2 == <<"Why?">>

Msg(r, c) == [role |-> r, content |-> c]

Req(model, stream, messages) == [model |-> model, messages |-> messages, stream |-> stream]

\* the requests of the orchestrator's specification: three conversation keys
\* ("", P1, P2), both modes, both models, user turns that differ under one key
Requests ==
  { Req("ai-teacher", TRUE, <<>>),
    Req("tavus-bridge", FALSE, <<Msg("system", P1), Msg("user", U1)>>),
    Req("tavus-bridge", TRUE,
        <<Msg("system", P1), Msg("user", U1), Msg("assistant", U2), Msg("user", U2)>>),
    Req("ai-teacher", FALSE,
        <<Msg("user", U2), Msg("system", P1), Msg("system", P2), Msg("assistant", U1)>>),
    Req("ai-teacher", TRUE, <<Msg("system", P2), Msg("user", U1)>>) }

\* what the backend may say
BackendText == <<"Hi", " ", "there">>

\* the requests, numbered in the order they arrive
Reqs == 1 .. NumReq

\* ---------------------------------------------------------------- state
VARIABLES
  sessions,         \* the module-level dict: conversation id -> session
  issued,           \* backend: how many sessions it has created (ids 1..issued)
  pc,               \* where each handler is
  request,          \* the request a handler is serving
  config,           \* its locals ...
  conversation_id,
  user_message,
  session,          \* <<>> for None, <<s>> for a found or built session
  calls,            \* the backend calls it has made, in order
  backend,          \* the backend's answer to its call
  teacher_message,  \* the reply text
  response,         \* what it returned to the caller
  events,           \* the SSE events its stream has produced
  overlapped        \* history: some request was accepted while another was in flight

vars ==
  << sessions, issued, pc, request, config, conversation_id, user_message, session,
     calls, backend, teacher_message, response, events, overlapped >>

NoRequest == [model |-> "", messages |-> <<>>, stream |-> FALSE]

NoBackend == [transport |-> FALSE, status |-> 0, json |-> FALSE,
              body |-> [session_id |-> Absent, initial_message |-> Absent,
                        teacher_message |-> Absent]]

NoResponse == [kind |-> "none"]

Init ==
  /\ sessions = <<>>
  /\ issued = 0
  /\ pc = [r \in Reqs |-> "idle"]
  /\ request = [r \in Reqs |-> NoRequest]
  /\ config = [r \in Reqs |-> DefaultConfig]
  /\ conversation_id = [r \in Reqs |-> MD5(<<>>)]
  /\ user_message = [r \in Reqs |-> <<>>]
  /\ session = [r \in Reqs |-> <<>>]
  /\ calls = [r \in Reqs |-> <<>>]
  /\ backend = [r \in Reqs |-> NoBackend]
  /\ teacher_message = [r \in Reqs |-> <<>>]
  /\ response = [r \in Reqs |-> NoResponse]
  /\ events = [r \in Reqs |-> <<>>]
  /\ overlapped = FALSE

\* ---------------------------------------------------------- backend client
\* the JSON payload of POST /api/v1/teacher/start
StartPayload(cfg) ==
  [ subject          |-> cfg.subject,
    chapter          |-> cfg.chapter,
    lesson           |-> cfg.lesson,
    level            |-> cfg.level,
    student_name     |-> cfg.student,
    teacher_language |-> cfg.language,
    competence       |-> cfg.competence ]

StartCall(cfg) == [op |-> "start", payload |-> StartPayload(cfg)]

SendCall(session_id, message) ==
  [op |-> "message", payload |-> [session_id |-> session_id, message |-> message]]

Body(sid, init, tm) ==
  [session_id |-> sid, initial_message |-> init, teacher_message |-> tm]

Answer(status, json, body) ==
  [transport |-> FALSE, status |-> status, json |-> json, body |-> body]

\* httpx.HTTPError: no answer at all (timeout, connection error)
TransportError == [transport |-> TRUE, status |-> 0, json |-> FALSE, body |-> NoBackend.body]

Statuses == {200, 201, 500}

\* the bodies of a 201 answer, as <<session_id, initial_message>>: the new
\* session's id n with or without a greeting, and bodies lacking or nulling a field
StartBodies(n) ==
  { <<JStr(n), JStr(BackendText)>>, <<JStr(n), Absent>>, <<JStr(n), JNull>>,
    <<JNull, JStr(BackendText)>>, <<Absent, JStr(BackendText)>>, <<Absent, Absent>> }

\* every answer to POST .../start; a new session gets the next id.  The body
\* of the last answer is a complete one, under the success status of the other
\* call
StartAnswers(n) ==
  {TransportError}
    \cup {Answer(st, FALSE, NoBackend.body) : st \in Statuses}
    \cup {Answer(201, TRUE, Body(b[1], b[2], Absent)) : b \in StartBodies(n)}
    \cup {Answer(200, TRUE, Body(JStr(n), JStr(BackendText), Absent))}

\* every answer to POST .../message
SendAnswers ==
  {TransportError}
    \cup {Answer(st, FALSE, NoBackend.body) : st \in Statuses}
    \cup {Answer(st, TRUE, Body(Absent, Absent, tm)) :
            st \in {200}, tm \in {Absent, JNull, JStr(BackendText)}}
    \cup {Answer(201, TRUE, Body(Absent, Absent, JStr(BackendText)))}

\* a variant: "if not response.is_success", any listed 2xx status passes
start_teacher_session_Any2xx(a) ==
  IF a.transport THEN [raised |-> TRUE, exc |-> "HTTPError", status |-> 0]
  ELSE IF a.status \notin {200, 201}
       THEN [raised |-> TRUE, exc |-> "HTTPException", status |-> a.status]
  ELSE IF ~a.json THEN [raised |-> TRUE, exc |-> "JSONDecodeError", status |-> 0]
  ELSE [raised |-> FALSE, data |-> a.body]

\* lines 158-167, from the backend's answer on: the returned dict, or what is raised
start_teacher_session(a) ==
  IF a.transport THEN [raised |-> TRUE, exc |-> "HTTPError", status |-> 0]
  ELSE IF a.status # 201
       THEN [raised |-> TRUE, exc |-> "HTTPException", status |-> a.status]
  ELSE IF ~a.json THEN [raised |-> TRUE, exc |-> "JSONDecodeError", status |-> 0]
  ELSE [raised |-> FALSE, data |-> a.body]

\* lines 183-192, from the backend's answer on
send_message_to_teacher(a) ==
  IF a.transport THEN [raised |-> TRUE, exc |-> "HTTPError", status |-> 0]
  ELSE IF a.status # 200
       THEN [raised |-> TRUE, exc |-> "HTTPException", status |-> a.status]
  ELSE IF ~a.json THEN [raised |-> TRUE, exc |-> "JSONDecodeError", status |-> 0]
  ELSE [raised |-> FALSE, data |-> a.body]

\* ------------------------------------------------------------ the handler
\* a variant: sessions.setdefault(conversation_id, session)
StorePut_IfAbsent(store, k, s) == IF k \in DOMAIN store THEN store ELSE (k :> s) @@ store

\* sessions[conversation_id] = session
StorePut(store, k, s) == (k :> s) @@ store

\* a variant: the lookup takes whatever entry the store has, of any key
StoreGet_AnyKey(store, k) ==
  IF DOMAIN store # {} THEN <<store[CHOOSE x \in DOMAIN store : TRUE]>> ELSE <<>>

\* sessions.get(conversation_id)
StoreGet(store, k) == IF k \in DOMAIN store THEN <<store[k]>> ELSE <<>>

\* a variant: the lookup result is ignored
IsMiss_Always(found) == TRUE

\* "if not session": None is falsy, a session dict is never empty
IsMiss(found) == found = <<>>

\* a variant: "except httpx.HTTPError"
Catches_TransportOnly(exc) == exc = "HTTPError"

\* "except Exception": every class raised in the try block derives from it
Catches(exc) == exc \in {"HTTPError", "HTTPException", "JSONDecodeError", "KeyError", "TypeError"}

Raise(exc, status, store) == [raised |-> TRUE, exc |-> exc, status |-> status, store |-> store]

\* x[:n] on the reply: a TypeError unless x is a string
Sliceable(v) == v[1] = "str"

\* a variant: the key is registered when the call is made, the Session's id
\* and greeting are filled in only if the call succeeds
TryStart_RegistersFirst(store, k, cfg, a) ==
  LET res == start_teacher_session(a)
      reg == StorePut(store, k, [session_id |-> JNull, config |-> cfg,
                                 initial_message |-> JNull])
  IN  IF res.raised THEN Raise(res.exc, res.status, reg)
      ELSE IF res.data.session_id = Absent THEN Raise("KeyError", 0, reg)
      ELSE LET s == [ session_id      |-> res.data.session_id,
                      config          |-> cfg,
                      initial_message |->
                        DictGet(res.data.initial_message, JStr(GREETING_DEFAULT)) ]
               put == StorePut(store, k, s)
           IN  IF ~Sliceable(s.initial_message) THEN Raise("TypeError", 0, put)
               ELSE [ raised |-> FALSE, store |-> put, session |-> <<s>>,
                      text |-> s.initial_message[2] ]

\* the miss branch of the try block, from the backend's answer on
TryStart(store, k, cfg, a) ==
  LET res == start_teacher_session(a) IN
  IF res.raised THEN Raise(res.exc, res.status, store)
  ELSE IF res.data.session_id = Absent THEN Raise("KeyError", 0, store)
  ELSE LET s == [ session_id      |-> res.data.session_id,
                  config          |-> cfg,
                  initial_message |->
                    DictGet(res.data.initial_message, JStr(GREETING_DEFAULT)) ]
           put == StorePut(store, k, s)
       IN  IF ~Sliceable(s.initial_message) THEN Raise("TypeError", 0, put)
           ELSE [ raised |-> FALSE, store |-> put, session |-> <<s>>,
                  text |-> s.initial_message[2] ]

\* the hit branch of the try block, from the backend's answer on
TrySend(store, found, a) ==
  LET res == send_message_to_teacher(a) IN
  IF res.raised THEN Raise(res.exc, res.status, store)
  ELSE LET tm == DictGet(res.data.teacher_message, JStr(NOT_CAUGHT)) IN
       IF ~Sliceable(tm) THEN Raise("TypeError", 0, store)
       ELSE [raised |-> FALSE, store |-> store, session |-> found, text |-> tm[2]]

\* a variant: every reply is streamed, the flag is not read
Respond_AlwaysStream(req, text, chat_id) ==
  [kind |-> "stream", status |-> 200, id |-> chat_id, model |-> req.model, text |-> text]

\* lines 316-332: the response object handed to the framework
Respond(req, text, chat_id) ==
  IF req.stream
  THEN [ kind |-> "stream", status |-> 200, id |-> chat_id, model |-> req.model,
         text |-> text ]
  ELSE [ kind |-> "json", status |-> 200, id |-> chat_id, model |-> req.model,
         choices |-> << [ index         |-> 0,
                          message       |-> [role |-> "assistant", content |-> text],
                          finish_reason |-> "stop" ] >> ]

\* an exception that leaves the handler: the framework's error response
ErrorResponse(t) ==
  [kind |-> "error", status |-> IF t.exc = "HTTPException" THEN t.status ELSE 500]

InFlight(r) == pc[r] \in {"awaitStart", "awaitSend"}

\* lines 263-288 / 305: everything up to the await of the backend call
Receive(r, req) ==
  /\ pc[r] = "idle"
  /\ \A q \in Reqs : q < r => pc[q] # "idle"
  /\ request' = [request EXCEPT ![r] = req]
  /\ config' = [config EXCEPT ![r] = extract_config_from_system_prompt(req.messages)]
  /\ conversation_id' = [conversation_id EXCEPT ![r] = get_conversation_id(req.messages)]
  /\ user_message' = [user_message EXCEPT ![r] = get_last_user_message(req.messages)]
  /\ session' = [session EXCEPT ![r] = StoreGet(sessions, conversation_id'[r])]
  /\ calls' = [calls EXCEPT ![r] =
                 IF IsMiss(session'[r])
                 THEN <<StartCall(config'[r])>>
                 ELSE <<SendCall(session'[r][1].session_id, user_message'[r])>>]
  /\ pc' = [pc EXCEPT ![r] = IF IsMiss(session'[r]) THEN "awaitStart" ELSE "awaitSend"]
  /\ backend' = [backend EXCEPT ![r] = NoBackend]
  /\ teacher_message' = [teacher_message EXCEPT ![r] = <<>>]
  /\ response' = [response EXCEPT ![r] = NoResponse]
  /\ events' = [events EXCEPT ![r] = <<>>]
  /\ overlapped' = (overlapped \/ \E q \in Reqs \ {r} : InFlight(q))
  /\ UNCHANGED <<sessions, issued>>

\* str(uuid.uuid4()): a fresh value for each request
UUID4(r) == <<"uuid", r>>

\* lines 309-332, after the try block ended as t
Finish(r, t) ==
  /\ sessions' = t.store
  /\ IF t.raised /\ ~Catches(t.exc)
     THEN /\ response' = [response EXCEPT ![r] = ErrorResponse(t)]
          /\ UNCHANGED <<teacher_message, session>>
     ELSE LET text == IF t.raised THEN APOLOGY ELSE t.text IN
          /\ teacher_message' = [teacher_message EXCEPT ![r] = text]
          /\ session' = [session EXCEPT ![r] = IF t.raised THEN session[r] ELSE t.session]
          /\ response' = [response EXCEPT ![r] = Respond(request[r], text, UUID4(r))]
  /\ pc' = [pc EXCEPT ![r] = "responded"]

\* a variant: a lock taken on entry and held across the await, so that a
\* handler resumes only when no request accepted before it is still waiting
StartReturns_Serialized(r, a) ==
  /\ \A q \in Reqs : q < r => ~InFlight(q)
  /\ pc[r] = "awaitStart"
  /\ backend' = [backend EXCEPT ![r] = a]
  /\ issued' = IF a.body.session_id = JStr(issued + 1) THEN issued + 1 ELSE issued
  /\ Finish(r, TryStart(sessions, conversation_id[r], config[r], a))
  /\ UNCHANGED <<request, config, conversation_id, user_message, calls, events, overlapped>>

\* the backend answers POST .../start and the handler runs to its return
StartReturns(r, a) ==
  /\ pc[r] = "awaitStart"
  /\ backend' = [backend EXCEPT ![r] = a]
  /\ issued' = IF a.body.session_id = JStr(issued + 1) THEN issued + 1 ELSE issued
  /\ Finish(r, TryStart(sessions, conversation_id[r], config[r], a))
  /\ UNCHANGED <<request, config, conversation_id, user_message, calls, events, overlapped>>

\* the backend answers POST .../message and the handler runs to its return
SendReturns(r, a) ==
  /\ pc[r] = "awaitSend"
  /\ backend' = [backend EXCEPT ![r] = a]
  /\ Finish(r, TrySend(sessions, session[r], a))
  /\ UNCHANGED <<issued, request, config, conversation_id, user_message, calls, events,
                 overlapped>>

\* ------------------------------------------------------- stream_response
Chunk(chat_id, model, delta, finish) ==
  << "chunk",
     [ id |-> chat_id, object |-> "chat.completion.chunk", model |-> model,
       choices |-> << [index |-> 0, delta |-> delta, finish_reason |-> finish] >> ] >>

\* a variant: the delta is the bare word
WordChunk_NoSpace(chat_id, model, word) ==
  Chunk(chat_id, model, [content |-> JStr(word)], JNull)

WordChunk(chat_id, model, word) ==
  Chunk(chat_id, model, [content |-> JStr(word \o <<" ">>)], JNull)

StopChunk(chat_id, model) == Chunk(chat_id, model, [content |-> Absent], JStr("stop"))

Sentinel == <<"[DONE]">>

Streaming(r) == pc[r] = "responded" /\ response[r].kind = "stream"

Emit(r, e) ==
  /\ events' = [events EXCEPT ![r] = Append(events[r], e)]
  /\ UNCHANGED << sessions, issued, pc, request, config, conversation_id, user_message,
                  session, calls, backend, teacher_message, response, overlapped >>

\* one turn of the loop over enumerate(words)
StreamWord(r) ==
  /\ Streaming(r)
  /\ LET words == Split(response[r].text)
         i     == Len(events[r]) + 1
     IN  /\ i <= Len(words)
         /\ Emit(r, WordChunk(response[r].id, response[r].model, words[i]))

\* the final chunk
StreamStop(r) ==
  /\ Streaming(r)
  /\ Len(events[r]) = Len(Split(response[r].text))
  /\ Emit(r, StopChunk(response[r].id, response[r].model))

\* "data: [DONE]"
StreamDone(r) ==
  /\ Streaming(r)
  /\ Len(events[r]) = Len(Split(response[r].text)) + 1
  /\ Emit(r, Sentinel)

\* -------------------------------------------------------- specifications
\* The orchestrator: NumReq requests served concurrently.  A stream handed to
\* the framework is not advanced here: its steps touch nothing but events[r]
\* and are the subject of SpecStream.
ReceiveAny(r) == pc[r] = "idle" /\ \E req \in Requests : Receive(r, req)

StartAnswered(r) ==
  /\ pc[r] = "awaitStart"
  /\ \E a \in StartAnswers(issued + 1) :
       /\ a.body.session_id = JStr(issued + 1) => issued < MaxSessions
       /\ StartReturns(r, a)

SendAnswered(r) == pc[r] = "awaitSend" /\ \E a \in SendAnswers : SendReturns(r, a)

Next == \E r \in Reqs : ReceiveAny(r) \/ StartAnswered(r) \/ SendAnswered(r)

Spec == Init /\ [][Next]_vars

\* The response translator: one streaming request whose reply is any short
\* text the backend may send, then the steps of the generator.
Alphabet == {"a", "b.", " ", "\n"}

RECURSIVE TextsUpTo(_)
TextsUpTo(n) ==
  IF n = 0 THEN {<<>>}
  ELSE LET S == TextsUpTo(n - 1) IN S \cup {Append(t, c) : t \in S, c \in Alphabet}

Texts == TextsUpTo(MaxTextLen)

StreamAnswers(n) ==
  StartAnswers(n) \cup {Answer(201, TRUE, Body(JStr(n), JStr(t), Absent)) : t \in Texts}

StreamReceive == pc[1] = "idle" /\ \E req \in {q \in Requests : q.stream} : Receive(1, req)

StreamAnswered ==
  pc[1] = "awaitStart" /\ \E a \in StreamAnswers(issued + 1) : StartReturns(1, a)

NextStream ==
  \/ StreamReceive
  \/ StreamAnswered
  \/ StreamWord(1)
  \/ StreamStop(1)
  \/ StreamDone(1)

SpecStream == Init /\ [][NextStream]_vars

\* The config extractor: one request whose system prompt is any concatenation
\* of at most MaxParts tags and noise segments.
Tag(name, raw) == <<"[", name, ":">> \o raw \o <<"]">>

PromptParts ==
  { Tag("LESSON", raw) : raw \in {<<>>, <<" ">>, <<" ", "Waves">>} }
    \cup { Tag("COMPETENCE", raw) :
             raw \in {<<>>, <<"\n", " ">>, <<" ", "Optics", " ">>,
                      <<" ">> \o DEFAULT_COMPETENCE} }
    \cup { Tag("SUBJECT", <<" ", "Chemistry">>), Tag("CHAPTER", <<"Light">>),
           Tag("LEVEL", <<" ", "Grade", " ", "9", " ">>), Tag("LANGUAGE", <<"fr">>),
           Tag("STUDENT", <<" ", " ", "Ada">>) }
    \cup { <<"Teach", " ">>, <<"[">>, <<"]">>, <<"[", "COMPETENCE", ":">> }

PartChoices == PromptParts \cup {<<>>}

\* the parts f[i..MaxParts], concatenated
RECURSIVE PromptFrom(_, _)
PromptFrom(f, i) == IF i > MaxParts THEN <<>> ELSE f[i] \o PromptFrom(f, i + 1)

ExtractReceive(messages) == Receive(1, Req("ai-teacher", FALSE, messages))

NextExtract ==
  /\ pc[1] = "idle"
  /\ \/ ExtractReceive(<<>>)
     \/ ExtractReceive(<<Msg("user", U1)>>)
     \/ \E f \in [1 .. MaxParts -> PartChoices] :
          ExtractReceive(<<Msg("system", PromptFrom(f, 1)), Msg("user", U1)>>)
     \/ \E p \in PartChoices :
          ExtractReceive(<<Msg("user", U2), Msg("system", p), Msg("system", P2)>>)

SpecExtract == Init /\ [][NextExtract]_vars

\* Progress: NumReq concurrent requests for one key, in both modes, each
\* followed to the end of its response, streams included.  Every backend call
\* ends (the client's timeout of 60 s turns silence into an exception), and the
\* event loop resumes every coroutine that can run.
LiveRequests == {q \in Requests : FirstSystemContent(q.messages) = P1 /\ Len(q.messages) # 2}

\* a call ends in one of two ways: it fails, or it returns a response
LiveStartAnswers(n) ==
  {TransportError, Answer(201, TRUE, Body(JStr(n), JStr(BackendText), Absent))}

LiveSendAnswers ==
  {TransportError, Answer(200, TRUE, Body(Absent, Absent, JStr(BackendText)))}

LiveReceive(r) == pc[r] = "idle" /\ \E req \in LiveRequests : Receive(r, req)

LiveStartAnswered(r) ==
  /\ pc[r] = "awaitStart"
  /\ \E a \in LiveStartAnswers(issued + 1) :
       /\ a.body.session_id = JStr(issued + 1) => issued < MaxSessions
       /\ StartReturns(r, a)

LiveSendAnswered(r) == pc[r] = "awaitSend" /\ \E a \in LiveSendAnswers : SendReturns(r, a)

NextLive ==
  \E r \in Reqs :
    \/ LiveReceive(r)
    \/ LiveStartAnswered(r)
    \/ LiveSendAnswered(r)
    \/ StreamWord(r)
    \/ StreamStop(r)
    \/ StreamDone(r)

\* a step of the request's own handler or stream; at most one of them is
\* enabled at a time, and it stays enabled until it is taken
OwnStep(r) ==
  \/ LiveStartAnswered(r)
  \/ LiveSendAnswered(r)
  \/ StreamWord(r)
  \/ StreamStop(r)
  \/ StreamDone(r)

Fairness == \A r \in Reqs : WF_vars(OwnStep(r))

SpecLive == Init /\ [][NextLive]_vars /\ Fairness

\* ---------------------------------------------------- vocabulary of claims
Responded(r) == pc[r] = "responded"

\* the request looked its key up and found nothing / found a Session
TookMiss(r) == pc[r] # "idle" /\ calls[r][1].op = "start"

TookHit(r) == pc[r] # "idle" /\ calls[r][1].op = "message"

NumCalls(r, op) == Cardinality({i \in 1 .. Len(calls[r]) : calls[r][i].op = op})

\* the reply text the caller gets, in either mode
HasReply(r) == Responded(r) /\ response[r].kind \in {"json", "stream"}

ReplyText(r) ==
  IF response[r].kind = "stream" THEN response[r].text
  ELSE response[r].choices[1].message.content

\* the backend kept the contract of its two calls: the success status and a body
\* {session_id, initial_message?} / {teacher_message?} whose fields are strings
StartKeptContract(a) ==
  /\ ~a.transport /\ a.status = 201 /\ a.json
  /\ a.body.session_id[1] = "str"
  /\ a.body.initial_message # JNull

SendKeptContract(a) ==
  /\ ~a.transport /\ a.status = 200 /\ a.json
  /\ a.body.teacher_message # JNull

KeptContract(r) ==
  IF TookMiss(r) THEN StartKeptContract(backend[r]) ELSE SendKeptContract(backend[r])

\* the initial_message of the Session a StartSession answer makes
GreetingOf(a) ==
  IF a.body.initial_message = Absent THEN GREETING_DEFAULT ELSE a.body.initial_message[2]

BackendStepFailed(r) ==
  LET a == backend[r] IN
  IF TookMiss(r)
  THEN a.transport \/ a.status # 201 \/ ~a.json \/ a.body.session_id = Absent
         \/ a.body.initial_message = JNull
  ELSE a.transport \/ a.status # 200 \/ ~a.json \/ a.body.teacher_message = JNull

\* C2: whatever way the backend step fails, the request completes with a
\* success response, in the mode it asked for, whose reply text is the apology
\* phrase; the backend's status is not passed on.
C2_FailureFallback ==
  \A r \in Reqs :
    (Responded(r) /\ BackendStepFailed(r)) =>
      /\ response[r].kind = (IF request[r].stream THEN "stream" ELSE "json")
      /\ response[r].status = 200
      /\ ReplyText(r) = APOLOGY

C2_Witness ==
  /\ Responded(1) /\ request[1].stream /\ backend[1].status = 500
  /\ Responded(2) /\ ~request[2].stream /\ backend[2].transport
  /\ ReplyText(1) = APOLOGY /\ ReplyText(2) = APOLOGY

\* ------------------------------------------------------------------- C3
\* the handler of the request inserted a Session: it missed and StartSession
\* answered 201 with a body that has a session_id
MadeSession(r) ==
  /\ Responded(r) /\ TookMiss(r)
  /\ ~backend[r].transport /\ backend[r].status = 201 /\ backend[r].json
  /\ backend[r].body.session_id # Absent

\* ... and the session_id was a new session's id
Inserted(r) == MadeSession(r) /\ backend[r].body.session_id[1] = "str"

StoredIds == {sessions[k].session_id : k \in DOMAIN sessions}

\* two first requests for one key that both missed and both inserted
BothInserted(r, q) ==
  /\ r # q /\ conversation_id[r] = conversation_id[q]
  /\ Inserted(r) /\ Inserted(q)

\* C3: when two requests for one key both observed a miss and both inserted a
\* Session, the id of the earlier insertion (ids are issued in the order of the
\* answers) is referenced nowhere in the store, and the store holds the later
\* insertion unless a third request for the key has inserted as well.
C3_RaceOrphansSession ==
  \A r, q \in Reqs :
    (BothInserted(r, q)
       /\ backend[r].body.session_id[2] < backend[q].body.session_id[2]) =>
      /\ backend[r].body.session_id \notin StoredIds
      /\ (\A x \in Reqs \ {r, q} :
            ~(MadeSession(x) /\ conversation_id[x] = conversation_id[q])) =>
           /\ sessions[conversation_id[q]].session_id = backend[q].body.session_id
           /\ sessions[conversation_id[q]].initial_message =
                (IF backend[q].body.initial_message = JNull THEN JNull
                 ELSE JStr(GreetingOf(backend[q])))

C3_Witness ==
  /\ BothInserted(1, 2)
  /\ overlapped
  /\ backend[2].body.session_id = JStr(1)
  /\ backend[1].body.session_id = JStr(2)
  /\ JStr(1) \notin StoredIds

\* ------------------------------------------------------------------- C4
\* C4: once a key maps to a Session, that entry is never replaced, updated or
\* removed.
C4_EntriesNeverReplaced ==
  [][\A k \in DOMAIN sessions : k \in DOMAIN sessions' /\ sessions'[k] = sessions[k]]_vars

\* ------------------------------------------------------------------- C5
\* the whitespace-delimited words of a text: its maximal runs of non-whitespace
WordStarts(t) ==
  {i \in 1 .. Len(t) : ~IsSpace(t[i]) /\ (i = 1 \/ IsSpace(t[i - 1]))}

WordEnd(t, i) ==
  CHOOSE j \in i .. Len(t) :
    /\ \A k \in i .. j : ~IsSpace(t[k])
    /\ j = Len(t) \/ IsSpace(t[j + 1])

NthWord(t, n) ==
  LET i == CHOOSE x \in WordStarts(t) : Cardinality({y \in WordStarts(t) : y < x}) = n - 1
  IN  SubSeq(t, i, WordEnd(t, i))

\* C5: a stream over a text of n words is n word chunks (the i-th word plus one
\* space, finish reason null) in word order, then one stop chunk (empty delta,
\* finish reason "stop"), then the [DONE] sentinel and nothing more; all chunks
\* carry the id and model of the response; the stream does not end earlier.
C5_StreamFraming ==
  \A r \in Reqs :
    IF Streaming(r)
    THEN LET t  == response[r].text
             n  == Cardinality(WordStarts(t))
             ev == events[r]
             chunk(delta, finish) ==
               << "chunk",
                  [ id |-> response[r].id, object |-> "chat.completion.chunk",
                    model |-> request[r].model,
                    choices |-> << [index |-> 0, delta |-> delta,
                                    finish_reason |-> finish] >> ] >>
         IN  /\ Len(ev) <= n + 2
             /\ \A i \in 1 .. Len(ev) :
                  ev[i] = IF i <= n
                          THEN chunk([content |-> <<"str", NthWord(t, i) \o <<" ">> >>],
                                     <<"null">>)
                          ELSE IF i = n + 1
                          THEN chunk([content |-> <<"absent">>], <<"str", "stop">>)
                          ELSE <<"[DONE]">>
             /\ Len(ev) < n + 2 => ENABLED (StreamWord(r) \/ StreamStop(r) \/ StreamDone(r))
             /\ Len(ev) = n + 2 => ~ENABLED (StreamWord(r) \/ StreamStop(r) \/ StreamDone(r))
    ELSE events[r] = <<>>

C5_Witness ==
  /\ Streaming(1)
  /\ response[1].text = <<" ", "a", "\n", "b.">>
  /\ Len(events[1]) = 4
  /\ events[1][4] = <<"[DONE]">>

LastUserContent(messages) ==
  LET users == {i \in 1 .. Len(messages) : messages[i].role = "user"} IN
  IF users = {} THEN <<>>
  ELSE messages[CHOOSE i \in users : \A j \in users : j <= i].content

\* C7: a request that finds a Session for its key makes one SendMessage call,
\* with the found Session's session id and the content of its last user message
\* ("" when it has none), and no other call, then or later.
C7_HitRelays ==
  [][\A r \in Reqs :
       /\ (pc[r] = "idle" /\ pc'[r] # "idle" /\ conversation_id'[r] \in DOMAIN sessions) =>
            calls'[r] =
              << [ op      |-> "message",
                   payload |-> [ session_id |-> sessions[conversation_id'[r]].session_id,
                                 message    |-> LastUserContent(request'[r].messages) ] ] >>
       /\ pc[r] # "idle" => calls'[r] = calls[r]
    ]_vars

C7_Witness ==
  /\ TookMiss(1) /\ TookHit(2) /\ Responded(2)
  /\ Len(request[2].messages) = 4 /\ request[2].messages[2].content = U1
  /\ calls[2] = << [op |-> "message", payload |-> [session_id |-> JStr(1), message |-> U2]] >>

\* ------------------------------------------------------------------- C8
\* c is the content of the first system message, "" standing for no such message
FirstSystemIs(messages, c) ==
  \/ \E i \in 1 .. Len(messages) :
       /\ messages[i].role = "system" /\ messages[i].content = c
       /\ \A j \in 1 .. i - 1 : messages[j].role # "system"
  \/ (\A i \in 1 .. Len(messages) : messages[i].role # "system") /\ c = <<>>

SameFirstSystem(m1, m2) ==
  \E c \in {<<>>} \cup {m1[i].content : i \in 1 .. Len(m1)} :
    FirstSystemIs(m1, c) /\ FirstSystemIs(m2, c)

\* C8: two requests get the same conversation key exactly when the content of
\* their first system message is the same, whatever else they hold; a request
\* with no system message gets the key of the empty string.
C8_KeyFromFirstSystemOnly ==
  \A r, q \in Reqs :
    (pc[r] # "idle" /\ pc[q] # "idle") =>
      /\ (conversation_id[r] = conversation_id[q])
           <=> SameFirstSystem(request[r].messages, request[q].messages)
      /\ FirstSystemIs(request[r].messages, <<>>) => conversation_id[r] = <<"md5", <<>> >>

C8_Witness ==
  /\ pc[1] # "idle" /\ pc[2] # "idle"
  /\ conversation_id[1] = conversation_id[2]
  /\ user_message[1] # user_message[2]
  /\ Len(request[1].messages) = 2
  /\ \E i \in 1 .. Len(request[2].messages) :
       /\ request[2].messages[i].role = "system"
       /\ ~FirstSystemIs(request[2].messages, request[2].messages[i].content)

\* ------------------------------------------------------------- C9 and C10
\* s[i..j] is a tag "[NAME: value]": the value is what stands between the colon
\* and the first "]" after it, and is not empty
IsTag(s, name, i, j) ==
  /\ i + 4 <= j /\ j <= Len(s)
  /\ s[i] = "[" /\ s[i + 1] = name /\ s[i + 2] = ":" /\ s[j] = "]"
  /\ \A k \in i + 3 .. j - 1 : s[k] # "]"

TagStarts(s, name) == {i \in 1 .. Len(s) : \E j \in 1 .. Len(s) : IsTag(s, name, i, j)}

HasTag(s, name) == TagStarts(s, name) # {}

\* a text without its leading and trailing whitespace
Trimmed(v) ==
  LET solid == {i \in 1 .. Len(v) : ~IsSpace(v[i])} IN
  IF solid = {} THEN <<>>
  ELSE SubSeq(v, CHOOSE i \in solid : \A j \in solid : i <= j,
                 CHOOSE i \in solid : \A j \in solid : j <= i)

\* the trimmed value of the first tag of that name
FirstTagValue(s, name) ==
  LET i == CHOOSE x \in TagStarts(s, name) : \A y \in TagStarts(s, name) : x <= y
      j == CHOOSE y \in 1 .. Len(s) : IsTag(s, name, i, y)
  IN  Trimmed(SubSeq(s, i + 3, j - 1))

\* the system prompt of a request: the content of its first system message
SystemPrompt(r) ==
  CHOOSE c \in {<<>>} \cup {request[r].messages[i].content : i \in 1 .. Len(request[r].messages)} :
    FirstSystemIs(request[r].messages, c)

\* the lesson the prompt resolves to
ResolvedLesson(s) ==
  IF HasTag(s, "LESSON") THEN FirstTagValue(s, "LESSON") ELSE <<"Introduction">>

\* C9: a prompt with a [COMPETENCE: value] tag yields competence = [value of the
\* first such tag, trimmed], for every value and whatever the lesson is.
C9_CompetenceTagWins ==
  \A r \in Reqs :
    (pc[r] # "idle" /\ HasTag(SystemPrompt(r), "COMPETENCE")) =>
      config[r].competence = <<FirstTagValue(SystemPrompt(r), "COMPETENCE")>>

\* C10 as stated: a prompt with no COMPETENCE tag yields competence =
\* ["Understanding " + lesson], also when the lesson tag's trimmed value is empty.
C10_SynthesizedAlways ==
  \A r \in Reqs :
    (pc[r] # "idle" /\ ~HasTag(SystemPrompt(r), "COMPETENCE")) =>
      config[r].competence = << <<"Understanding", " ">> \o ResolvedLesson(SystemPrompt(r)) >>

\* C10 amended: a prompt with no COMPETENCE tag yields competence =
\* ["Understanding " + lesson] when the resolved lesson is not empty, and the
\* default ["Understanding the core concepts"] when the LESSON tag's trimmed
\* value is empty.
C10_SynthesizedFromLesson ==
  \A r \in Reqs :
    (pc[r] # "idle" /\ ~HasTag(SystemPrompt(r), "COMPETENCE")) =>
      LET lesson == ResolvedLesson(SystemPrompt(r)) IN
      config[r].competence =
        IF lesson # <<>>
        THEN << <<"Understanding", " ">> \o lesson >>
        ELSE << <<"Understanding", " ", "the", " ", "core", " ", "concepts">> >>

C10_Witness ==
  /\ pc[1] # "idle"
  /\ SystemPrompt(1) = <<"Teach", " ", "[", "LESSON", ":", " ", "]">>
  /\ config[1].lesson = <<>>
  /\ config[1].competence = << <<"Understanding", " ", "the", " ", "core", " ", "concepts">> >>


\* ------------------------------------------------------------------ C11
StringFields == {"subject", "chapter", "lesson", "level", "language", "student"}

\* the tag that sets a field, and the value the field has without one
FieldTag(key) ==
  CASE key = "subject"  -> "SUBJECT"
    [] key = "chapter"  -> "CHAPTER"
    [] key = "lesson"   -> "LESSON"
    [] key = "level"    -> "LEVEL"
    [] key = "language" -> "LANGUAGE"
    [] key = "student"  -> "STUDENT"

FieldDefault(key) ==
  CASE key = "subject"  -> <<"Physics">>
    [] key = "chapter"  -> <<"General">>
    [] key = "lesson"   -> <<"Introduction">>
    [] key = "level"    -> <<"High", " ", "School">>
    [] key = "language" -> <<"en">>
    [] key = "student"  -> <<"Student">>

\* a string: a finite sequence of atoms
IsText(v) == DOMAIN v = 1 .. Len(v) /\ \A i \in 1 .. Len(v) : v[i] \in STRING

\* C11: for every message list (empty, without a system message, with several,
\* with malformed or repeated tags) the extractor returns a config that has the
\* six string fields and a competence list of exactly one string, and each
\* string field is the trimmed value of the first tag for its key in the first
\* system message, or its default when that message has no such tag.
C11_ExtractorTotal ==
  \A r \in Reqs :
    pc[r] # "idle" =>
      LET s == SystemPrompt(r) IN
      /\ DOMAIN config[r] = StringFields \cup {"competence"}
      /\ Len(config[r].competence) = 1
      /\ IsText(config[r].competence[1])
      /\ \A key \in StringFields :
           /\ IsText(config[r][key])
           /\ config[r][key] = IF HasTag(s, FieldTag(key))
                               THEN FirstTagValue(s, FieldTag(key))
                               ELSE FieldDefault(key)

\* a prompt with two LESSON tags of different values and a padded LEVEL value
C11_Witness ==
  /\ pc[1] # "idle"
  /\ SystemPrompt(1) =
       <<"[", "LESSON", ":", " ", "Waves", "]", "[", "LESSON", ":", " ", "]",
         "[", "LEVEL", ":", " ", "Grade", " ", "9", " ", "]">>
  /\ config[1].lesson = <<"Waves">>
  /\ config[1].level = <<"Grade", " ", "9">>
  /\ config[1].subject = <<"Physics">>


\* ------------------------------------------------------------------ C12
\* C12: the step that answers a request returns one response whose mode is set
\* by the request's stream flag alone, whatever the backend did; for stream =
\* false it is a completed response with exactly one choice (index 0, role
\* "assistant", the decided reply text unchanged, finish reason "stop") and the
\* request's model name; a response once returned is not replaced.
C12_NonStreamShape ==
  [][\A r \in Reqs :
       /\ (pc[r] # "responded" /\ pc'[r] = "responded") =>
            /\ response'[r].kind = (IF request[r].stream THEN "stream" ELSE "json")
            /\ ~request[r].stream =>
                 /\ response'[r].status = 200
                 /\ response'[r].model = request[r].model
                 /\ response'[r].choices =
                      << [ index         |-> 0,
                           message       |-> [ role    |-> "assistant",
                                               content |-> teacher_message'[r] ],
                           finish_reason |-> "stop" ] >>
       /\ pc[r] = "responded" => (pc'[r] = "responded" /\ response'[r] = response[r])
    ]_vars

\* two non-streaming requests with different models, one whose backend call
\* failed and one whose backend call succeeded
C12_Witness ==
  /\ Responded(1) /\ ~request[1].stream /\ request[1].model = "tavus-bridge"
  /\ backend[1].status = 500 /\ response[1].kind = "json"
  /\ response[1].choices[1].message.content = APOLOGY
  /\ Responded(2) /\ ~request[2].stream /\ request[2].model = "ai-teacher"
  /\ StartKeptContract(backend[2]) /\ response[2].kind = "json"
  /\ response[2].choices[1].message.content = BackendText
  /\ response[2].model = "ai-teacher"


\* ------------------------------------------------------------------ C13
\* the backend answered, with a status other than the one the call accepts
WrongStatus(a, accepted) == ~a.transport /\ a.status # accepted

\* C13: StartSession succeeds only on status 201 and SendMessage only on status
\* 200.  An answer with any other status, 200 to StartSession and 201 to
\* SendMessage included and whatever its body, makes the request reply with the
\* apology phrase, and on the StartSession side leaves the store as it was.
C13_ExactStatus ==
  [][\A r \in Reqs :
       /\ (pc[r] = "awaitStart" /\ pc'[r] = "responded"
             /\ WrongStatus(backend'[r], 201)) =>
            /\ sessions' = sessions
            /\ response'[r].kind \in {"json", "stream"}
            /\ ReplyText(r)' = APOLOGY
       /\ (pc[r] = "awaitSend" /\ pc'[r] = "responded"
             /\ WrongStatus(backend'[r], 200)) =>
            /\ response'[r].kind \in {"json", "stream"}
            /\ ReplyText(r)' = APOLOGY
    ]_vars

\* SendMessage answered 201 with a complete body: the reply is the apology
C13_Witness ==
  /\ Inserted(1) /\ TookHit(2) /\ Responded(2)
  /\ backend[2].status = 201 /\ backend[2].json
  /\ backend[2].body.teacher_message = JStr(BackendText)
  /\ ReplyText(2) = APOLOGY
  /\ sessions[conversation_id[2]].session_id = backend[1].body.session_id


\* ------------------------------------------------------------------ C14
\* SendMessage returned: status 200 and a body that parses
SendSucceeded(a) == ~a.transport /\ a.status = 200 /\ a.json

\* C14: on the hit path with a successful SendMessage the reply text is the
\* body's teacher_message whenever the body has that field, and the "didn't
\* catch that" phrase, which is not the apology phrase, exactly when the body
\* lacks it.
C14_TeacherMessageOrFallback ==
  \A r \in Reqs :
    (Responded(r) /\ TookHit(r) /\ SendSucceeded(backend[r])) =>
      /\ HasReply(r)
      /\ IF backend[r].body.teacher_message = <<"absent">>
         THEN ReplyText(r) =
                <<"I", " ", "apologize,", " ", "but", " ", "I", " ", "didn't", " ",
                  "catch", " ", "that.", " ", "Could", " ", "you", " ", "please", " ",
                  "repeat?">>
         ELSE /\ <<"str", ReplyText(r)>> = backend[r].body.teacher_message
              /\ ReplyText(r) # NOT_CAUGHT
      /\ NOT_CAUGHT # APOLOGY


\* ------------------------------------------------------------------ C15
\* the session id the request's SendMessage call carries
SentId(r) == calls[r][1].payload.session_id

\* C15: in every state, a request that has issued SendMessage carries the
\* session_id that a StartSession call of another request for the same key
\* returned with status 201, that call having returned before this request
\* looked its key up; the id is not one the backend created for another key.
C15_SendUsesOwnKeysSession ==
  \A r \in Reqs :
    TookHit(r) =>
      /\ \E q \in Reqs \ {r} :
           /\ conversation_id[q] = conversation_id[r]
           /\ q < r
           /\ MadeSession(q)
           /\ SentId(r) = backend[q].body.session_id
      /\ \A q \in Reqs :
           (Inserted(q) /\ conversation_id[q] # conversation_id[r]) =>
             SentId(r) # backend[q].body.session_id

\* two requests with no messages at all: the second continues the session the
\* first one started for the key of the empty prompt
C15_Witness ==
  /\ request[1].messages = <<>> /\ request[2].messages = <<>>
  /\ Inserted(1) /\ TookHit(2)
  /\ calls[2] = << [ op      |-> "message",
                     payload |-> [session_id |-> <<"str", 1>>, message |-> <<>>] ] >>


\* ------------------------------------------------------------------ C16
\* the step in which the handler of r returns
Returns(r) == pc[r] # "responded" /\ pc'[r] = "responded"

\* C16: a request answered with the apology phrase leaves the store exactly as
\* it was, whatever the backend did (success bodies with missing or null fields
\* included); a hit-path request leaves the store as it was whether SendMessage
\* succeeds or fails; and a request never changes the entry of a key other
\* than its own.
C16_ApologyLeavesStore ==
  [][\A r \in Reqs :
       Returns(r) =>
         /\ (response'[r].kind \in {"json", "stream"} /\ ReplyText(r)' = APOLOGY) =>
              sessions' = sessions
         /\ pc[r] = "awaitSend" => sessions' = sessions
         /\ DOMAIN sessions' \subseteq DOMAIN sessions \cup {conversation_id[r]}
         /\ \A k \in DOMAIN sessions \ {conversation_id[r]} :
              k \in DOMAIN sessions' /\ sessions'[k] = sessions[k]
    ]_vars


\* ------------------------------------------------------------------ C17
\* an answer to StartSession that creates nothing: no answer, a status other
\* than 201, a body that does not parse or has no session_id
CreationFailed(a) ==
  a.transport \/ a.status # 201 \/ ~a.json \/ a.body.session_id = <<"absent">>

\* the requests for key k that have returned
ReturnedFor(k) == {q \in Reqs : Responded(q) /\ conversation_id[q] = k}

\* C17: a failed creation is not remembered.  While every request for a key
\* that has returned so far had its StartSession fail, the key has no Session,
\* and every request accepted for that key has taken the miss path: it has
\* called StartSession and not SendMessage, however many failures came before.
C17_FailureNotRemembered ==
  \A r \in Reqs :
    (pc[r] # "idle"
       /\ \A q \in ReturnedFor(conversation_id[r]) : CreationFailed(backend[q])) =>
      /\ conversation_id[r] \notin DOMAIN sessions
      /\ Len(calls[r]) = 1
      /\ calls[r][1].op = "start"
      /\ NumCalls(r, "message") = 0

\* two requests for one key, one after the other, whose creations both failed
C17_Witness ==
  /\ ~overlapped
  /\ conversation_id[1] = conversation_id[2]
  /\ Responded(1) /\ backend[1].status = 201 /\ backend[1].json
  /\ backend[1].body.session_id = <<"absent">>
  /\ Responded(2) /\ backend[2].transport
  /\ calls[2][1].op = "start"
  /\ sessions = <<>>


\* ------------------------------------------------------------------ C18
\* C18: in every state, the config stored in the Session of a key is the
\* config extracted for every accepted request that has this key, on either
\* path: a request that continues a Session continues one created with its
\* own config.
C18_StoredConfigIsOwn ==
  \A r \in Reqs :
    (pc[r] # "idle" /\ conversation_id[r] \in DOMAIN sessions) =>
      /\ sessions[conversation_id[r]].config = config[r]
      /\ \A q \in Reqs :
           (pc[q] # "idle" /\ conversation_id[q] = conversation_id[r]) =>
             config[q] = config[r]

\* a Session created by a request with one system message is continued by a
\* request that has a second system message with another tag
C18_Witness ==
  /\ Inserted(1) /\ Len(request[1].messages) = 2
  /\ TookHit(2) /\ Len(request[2].messages) = 4
  /\ request[2].messages[3] = [role |-> "system", content |-> P2]
  /\ sessions[conversation_id[2]].config = config[2]
  /\ config[2].competence = << <<"Understanding", " ", "Waves">> >>


\* ------------------------------------------------------------------ C19
\* the request has been accepted
Accepted(r) == pc[r] # "idle"

\* the caller has the whole response: the single response of a non-streaming
\* request, or a stream that ended with the stop chunk and the [DONE] sentinel
Completed(r) ==
  /\ Responded(r)
  /\ response[r].kind \in {"json", "stream"}
  /\ response[r].kind = "stream" =>
       LET n == Len(events[r]) IN
       /\ n >= 2
       /\ events[r][n] = <<"[DONE]">>
       /\ events[r][n - 1][1] = "chunk"
       /\ events[r][n - 1][2].choices[1].finish_reason = <<"str", "stop">>

\* C19: when every backend call ends and the scheduler is fair, every accepted
\* request is eventually completed (a non-streaming one has returned its
\* response, a streaming one has emitted the stop chunk and the [DONE]
\* sentinel), and until then its next step can be taken whatever state the
\* other requests are in: no request waits on another.
\* (Accepted and Completed, once true, stay true, so "every accepted request is
\* eventually completed" is: from some point on, every accepted request is
\* completed.)
C19_EveryRequestCompletes ==
  /\ [](\A r \in Reqs : (Accepted(r) /\ ~Completed(r)) => ENABLED OwnStep(r))
  /\ <>[](\A r \in Reqs : Accepted(r) => Completed(r))

\* the later request has streamed to the end while the earlier one still
\* waits for the backend
C19_Witness ==
  /\ pc[1] = "awaitStart"
  /\ Completed(2) /\ request[2].stream
  /\ events[2][Len(events[2])] = <<"[DONE]">>

=============================================================================
